---------------------------- MODULE Spec2Model ----------------------------
(***************************************************************************)
(* The address QR-code modal of the multichain accounts UI, in its two     *)
(* implementations:                                                        *)
(*   - the chain-identifier implementation (src/unnamed/part_001), which   *)
(*     normalises the chainId prop and looks the network up by key, and    *)
(*   - the account-scope implementation                                    *)
(*     (src/ui/.../address-qr-code-modal.tsx), which takes the network     *)
(*     from the account.                                                   *)
(* Both are rendered side by side from the same props and the same store,  *)
(* definitions of the first carry the suffix ByChainId, of the second      *)
(* ByScope.  JavaScript strings that the code inspects (addresses, chain   *)
(* identifiers, URLs) are sequences of one-character strings; display      *)
(* names and localised labels are atomic strings.                          *)
(***************************************************************************)
EXTENDS Integers, Sequences, FiniteSets, TLC

VARIABLES
    address,        \* prop: the address to display
    chainId,        \* prop: the chain identifier, hex or CAIP
    account,        \* prop: the optional InternalAccount (NoAccount when absent)
    store,          \* the redux store: internal accounts and network registry
    view,           \* what the last render produced, per implementation
    handlers,       \* the memoised click handlers (useCallback), per implementation
    effect          \* the side effects of the most recent step, per implementation

vars == <<address, chainId, account, store, view, handlers, effect>>

-----------------------------------------------------------------------------
(* Bounds of the model *)

\* Addresses of every length from 0 to MaxAddrLen are rendered.
MaxAddrLen == 12

-----------------------------------------------------------------------------
(* JavaScript string primitives *)

\* String.prototype.startsWith
StartsWith(s, p) ==
    /\ Len(s) >= Len(p)
    /\ SubSeq(s, 1, Len(p)) = p

\* String.prototype.includes
Includes(s, sub) ==
    \E i \in 0..(Len(s) - Len(sub)) : SubSeq(s, i + 1, i + Len(sub)) = sub

\* The clamping String.prototype.substring applies to each index.
ClampIndex(i, n) == IF i < 0 THEN 0 ELSE IF i > n THEN n ELSE i

\* String.prototype.substring(start, end): both indices are clamped to
\* [0, length] and swapped when start > end.
Substring(s, start, end) ==
    LET a  == ClampIndex(start, Len(s))
        b  == ClampIndex(end, Len(s))
        lo == IF a <= b THEN a ELSE b
        hi == IF a <= b THEN b ELSE a
    IN  SubSeq(s, lo + 1, hi)

\* String.prototype.substring(start): to the end of the string.
SubstringFrom(s, start) == Substring(s, start, Len(s))

\* explorerUrl.replace(/\/$/, ''): one trailing slash removed.
ReplaceTrailingSlash(s) ==
    IF Len(s) > 0 /\ s[Len(s)] = "/" THEN SubSeq(s, 1, Len(s) - 1) ELSE s

\* a || b on strings: the empty string is falsy.
OrElse(a, b) == IF a # "" THEN a ELSE b

-----------------------------------------------------------------------------
(* Constants of the component *)

PREFIX_LEN == 6
SUFFIX_LEN == 5

EIP155_PREFIX == <<"e","i","p","1","5","5",":">>
HEX_PREFIX == <<"0","x">>
ADDRESS_PATH == <<"/","a","d","d","r","e","s","s","/">>
EmptyString == <<>>

\* multichainNetwork = null / undefined, accountInfo = undefined, account prop absent
NoNetwork == [none |-> TRUE]
NoAccount == [none |-> TRUE]

\* The outcome of a call that may throw: its value, or the exception.
Returned(v) == [ok |-> TRUE, value |-> v]
Thrown == [ok |-> FALSE]

IsNone(x) == "none" \in DOMAIN x

-----------------------------------------------------------------------------
(* toEvmCaipChainId of @metamask/multichain-network-controller:            *)
(* toCaipChainId('eip155', hexToNumber(chainId).toString())                *)

HexChars == {"0","1","2","3","4","5","6","7","8","9",
             "a","b","c","d","e","f","A","B","C","D","E","F"}

HexDigitValue(c) ==
    CASE c = "0" -> 0  [] c = "1" -> 1  [] c = "2" -> 2  [] c = "3" -> 3
      [] c = "4" -> 4  [] c = "5" -> 5  [] c = "6" -> 6  [] c = "7" -> 7
      [] c = "8" -> 8  [] c = "9" -> 9
      [] c \in {"a", "A"} -> 10  [] c \in {"b", "B"} -> 11
      [] c \in {"c", "C"} -> 12  [] c \in {"d", "D"} -> 13
      [] c \in {"e", "E"} -> 14  [] c \in {"f", "F"} -> 15

DecimalChar(d) == <<"0","1","2","3","4","5","6","7","8","9">>[d + 1]

\* The digits after the optional 0x prefix.
HexBody(s) == IF StartsWith(s, HEX_PREFIX) THEN SubSeq(s, 3, Len(s)) ELSE s

\* assertIsHexString: /^(?:0x)?[0-9a-f]+$/iu
IsHexString(s) ==
    /\ Len(HexBody(s)) >= 1
    /\ \A i \in 1..Len(HexBody(s)) : HexBody(s)[i] \in HexChars

RECURSIVE StripLeadingZeros(_)
StripLeadingZeros(ds) ==
    IF Len(ds) > 1 /\ ds[1] = "0" THEN StripLeadingZeros(Tail(ds)) ELSE ds

\* Number.isSafeInteger(parseInt(value, 16)): the value is at most
\* 2^53 - 1 = 0x1fffffffffffff, fourteen hex digits of which the first is 1.
MaxSafeHexDigits == 14
IsSafeHex(body) ==
    LET ds == StripLeadingZeros(body)
    IN  \/ Len(ds) < MaxSafeHexDigits
        \/ Len(ds) = MaxSafeHexDigits /\ ds[1] = "1"

\* dec * 16 + d on a decimal numeral held as a sequence of digit values,
\* most significant first (the value may exceed TLC's integers).
RECURSIVE MulAdd16(_, _)
MulAdd16(dec, carry) ==
    IF Len(dec) = 0
    THEN IF carry = 0 THEN <<>>
         ELSE MulAdd16(<<>>, carry \div 10) \o <<carry % 10>>
    ELSE LET last == dec[Len(dec)]
             v    == last * 16 + carry
         IN  MulAdd16(SubSeq(dec, 1, Len(dec) - 1), v \div 10) \o <<v % 10>>

RECURSIVE HexToDecimalDigits(_, _)
HexToDecimalDigits(body, acc) ==
    IF Len(body) = 0 THEN acc
    ELSE HexToDecimalDigits(Tail(body), MulAdd16(acc, HexDigitValue(Head(body))))

\* hexToNumber(value).toString(): the decimal numeral of the value.
NumberToString(body) ==
    LET ds == HexToDecimalDigits(body, <<>>)
    IN  IF Len(ds) = 0 THEN <<"0">>
        ELSE [i \in 1..Len(ds) |-> DecimalChar(ds[i])]

toEvmCaipChainId(hex) ==
    IF IsHexString(hex) /\ IsSafeHex(HexBody(hex))
    THEN Returned(EIP155_PREFIX \o NumberToString(HexBody(hex)))
    ELSE Thrown


-----------------------------------------------------------------------------
(* Fixture data: the store of the stories (src/unnamed/part_000) and the   *)
(* props the stories pass, with further stores and chain identifiers that  *)
(* exercise the other branches.                                            *)

\* Chain identifiers in CAIP form
ETHEREUM_MAINNET == <<"e","i","p","1","5","5",":","1">>
POLYGON_MAINNET == <<"e","i","p","1","5","5",":","1","3","7">>
ARBITRUM_ONE == <<"e","i","p","1","5","5",":","4","2","1","6","1">>
OP_MAINNET == <<"e","i","p","1","5","5",":","1","0">>
MAX_SAFE_CHAIN ==
    <<"e","i","p","1","5","5",":","9","0","0","7","1","9","9","2","5","4",
      "7","4","0","9","9","1">>
EIP155_EMPTY_REFERENCE == <<"e","i","p","1","5","5",":">>
EIP155_HEX_REFERENCE == <<"e","i","p","1","5","5",":","0","x","1">>
SOLANA_MAINNET ==
    <<"s","o","l","a","n","a",":","5","e","y","k","t","4","U","s","F","v",
      "8","P","8","N","J","d","T","R","E","p","Y","1","v","z","q","K","q",
      "Z","K","v","d","p">>
BITCOIN_MAINNET ==
    <<"b","i","p","1","2","2",":","0","0","0","0","0","0","0","0","0","0",
      "1","9","d","6","6","8","9","c","0","8","5","a","e","1","6","5","8",
      "3","1","e","9","3">>

\* Chain identifiers in hex form, valid and invalid, and other shapes
HEX_1 == <<"0","x","1">>
HEX_89 == <<"0","x","8","9">>
HEX_A4B1 == <<"0","x","a","4","b","1">>
HEX_LEADING_ZERO == <<"0","x","0","1">>
HEX_UPPER_A == <<"0","x","A">>
HEX_NO_DIGITS == <<"0","x">>
HEX_MALFORMED == <<"0","x","g","1">>
HEX_UPPER_PREFIX == <<"0","X","1">>
HEX_MAX_SAFE ==
    <<"0","x","1","f","f","f","f","f","f","f","f","f","f","f","f","f">>
HEX_OUT_OF_RANGE ==
    <<"0","x","2","0","0","0","0","0","0","0","0","0","0","0","0","0">>
DECIMAL_1 == <<"1">>

\* Account scopes
EIP155_WILDCARD == <<"e","i","p","1","5","5",":","*">>
SOLANA_WILDCARD == <<"s","o","l","a","n","a",":","*">>
BIP122_WILDCARD == <<"b","i","p","1","2","2",":","*">>

\* Addresses
ETHEREUM_ADDRESS ==
    <<"0","x","0","d","c","d","5","d","8","8","6","5","7","7","d","5","0",
      "8","1","b","0","c","5","2","e","2","4","2","e","f","2","9","e","7",
      "0","b","e","3","e","7","b","c">>
POLYGON_ADDRESS ==
    <<"0","x","a","b","c","d","e","f","1","2","3","4","5","6","7","8","9",
      "0","a","b","c","d","e","f","1","2","3","4","5","6","7","8","9","0",
      "a","b","c","d","e","f","1","2">>
SOLANA_ADDRESS ==
    <<"8","A","4","A","p","t","C","T","h","f","b","u","k","n","s","b","t",
      "e","H","g","G","K","X","c","z","f","J","p","f","j","u","V","A","9",
      "S","L","T","S","G","a","a","L","G","C">>
BITCOIN_ADDRESS ==
    <<"b","c","1","q","w","l","8","3","9","9","f","z","8","2","9","u","q",
      "v","q","l","y","9","t","c","a","t","g","r","g","t","w","p","3","u",
      "d","n","h","x","f","q","4","k">>
WITHOUT_ACCOUNT_ADDRESS ==
    <<"0","x","1","1","1","1","2","2","2","2","3","3","3","3","4","4","4",
      "4","5","5","5","5","6","6","6","6","7","7","7","7","8","8","8","8",
      "9","9","9","9","0","0","0","0">>

\* Block explorer URLs
ETHERSCAN_URL ==
    <<"h","t","t","p","s",":","/","/","e","t","h","e","r","s","c","a","n",
      ".","i","o">>
POLYGONSCAN_URL ==
    <<"h","t","t","p","s",":","/","/","p","o","l","y","g","o","n","s","c",
      "a","n",".","c","o","m">>
ARBISCAN_URL ==
    <<"h","t","t","p","s",":","/","/","a","r","b","i","s","c","a","n",".",
      "i","o">>
BSCSCAN_URL ==
    <<"h","t","t","p","s",":","/","/","b","s","c","s","c","a","n",".","c",
      "o","m","/">>
SOLSCAN_URL ==
    <<"h","t","t","p","s",":","/","/","s","o","l","s","c","a","n",".","i",
      "o","/">>
BLOCKSCOUT_URL ==
    <<"h","t","t","p","s",":","/","/","e","t","h",".","b","l","o","c","k",
      "s","c","o","u","t",".","c","o","m","/">>
OP_ETHERSCAN_URL ==
    <<"h","t","t","p","s",":","/","/","o","p","t","i","m","i","s","t","i",
      "c",".","e","t","h","e","r","s","c","a","n",".","i","o","/","/">>

\* An explorer whose host names no brand but whose path does, and one whose
\* host names two brands.
PATH_BRAND_URL ==
    <<"h","t","t","p","s",":","/","/","b","l","o","c","k","s","c","o","u",
      "t",".","c","o","m","/","e","t","h","e","r","s","c","a","n","/">>
TWO_BRAND_URL ==
    <<"h","t","t","p","s",":","/","/","a","r","b","i","s","c","a","n",".",
      "b","s","c","s","c","a","n",".","c","o","m">>

\* An address with characters that URL encoding would change.
ODD_ADDRESS ==
    <<"0","x"," ","a","/","#","?","%">>

\* The substrings getExplorerButtonText looks for
etherscan == <<"e","t","h","e","r","s","c","a","n">>
bscscan == <<"b","s","c","s","c","a","n">>
polygonscan == <<"p","o","l","y","g","o","n","s","c","a","n">>
arbiscan == <<"a","r","b","i","s","c","a","n">>
solscan == <<"s","o","l","s","c","a","n">>

\* Every prefix of the Polygon story's address up to MaxAddrLen characters.
ShortAddresses == {SubSeq(POLYGON_ADDRESS, 1, n) : n \in 0..MaxAddrLen}

\* The addresses of the fixture's accounts and of the story without one.
FullAddresses ==
    {ETHEREUM_ADDRESS, POLYGON_ADDRESS, SOLANA_ADDRESS, WITHOUT_ACCOUNT_ADDRESS}

\* The chain identifiers of the stories and of the registry.
StoryChainIds ==
    { HEX_1, HEX_89, HEX_A4B1, ETHEREUM_MAINNET, POLYGON_MAINNET,
      SOLANA_MAINNET, BITCOIN_MAINNET }

\* Every shape of chain identifier: empty, bare decimal, hex (valid, with
\* leading zero, upper case, without digits, malformed, at and beyond the
\* largest safe integer), and CAIP (EVM, with an empty or odd reference,
\* non-EVM).
AllChainIds ==
    StoryChainIds \cup
    { EmptyString, DECIMAL_1, HEX_LEADING_ZERO, HEX_UPPER_A, HEX_NO_DIGITS,
      HEX_MALFORMED, HEX_UPPER_PREFIX, HEX_MAX_SAFE, HEX_OUT_OF_RANGE,
      ARBITRUM_ONE, OP_MAINNET, MAX_SAFE_CHAIN, EIP155_EMPTY_REFERENCE,
      EIP155_HEX_REFERENCE }

\* InternalAccount: address, type, scopes, metadata.name
Account(addr, type, scopes, name) ==
    [address |-> addr, type |-> type, scopes |-> scopes,
     metadata |-> [name |-> name]]

ethereumAccount ==
    Account(ETHEREUM_ADDRESS, "eip155:eoa", <<EIP155_WILDCARD>>, "Account 1")
polygonAccount ==
    Account(POLYGON_ADDRESS, "eip155:eoa", <<POLYGON_MAINNET>>,
            "Polygon Account")
solanaAccount ==
    Account(SOLANA_ADDRESS, "solana:data-account", <<SOLANA_WILDCARD>>,
            "Solana Account")
bitcoinAccount ==
    Account(BITCOIN_ADDRESS, "bip122:p2wpkh", <<BIP122_WILDCARD>>,
            "Bitcoin Account")
longNameAccount ==
    Account(ETHEREUM_ADDRESS, "eip155:eoa", <<EIP155_WILDCARD>>,
            "My Very Long Account Name That Should Be Truncated Properly")
unnamedAccount ==
    Account(ETHEREUM_ADDRESS, "eip155:eoa", <<EIP155_WILDCARD>>, "")

\* The values of the account prop.
AccountProps ==
    { NoAccount, ethereumAccount, polygonAccount, solanaAccount,
      bitcoinAccount, longNameAccount }

\* A network configuration: chainId (its key, in CAIP form), name,
\* blockExplorerUrls (empty when the configuration has none), isEvm
Network(id, name, urls, isEvm) ==
    [chainId |-> id, name |-> name, blockExplorerUrls |-> urls,
     isEvm |-> isEvm]

\* The store of the stories.
StoryStore ==
    [ accounts |-> <<ethereumAccount, polygonAccount, solanaAccount>>,
      networks |->
        << Network(ETHEREUM_MAINNET, "Ethereum Mainnet", <<ETHERSCAN_URL>>, TRUE),
           Network(POLYGON_MAINNET, "Polygon Mainnet", <<POLYGONSCAN_URL>>, TRUE),
           Network(ARBITRUM_ONE, "Arbitrum One", <<ARBISCAN_URL>>, TRUE),
           Network(SOLANA_MAINNET, "Solana Mainnet", <<>>, FALSE),
           Network(BITCOIN_MAINNET, "Bitcoin Mainnet", <<>>, FALSE) >> ]

\* A wallet before any account or network is known.
EmptyStore == [accounts |-> <<>>, networks |-> <<>>]

\* A store with other explorers: an unrecognised host with a trailing slash
\* before a recognised one, an empty list, and an unnamed account.
CustomStore ==
    [ accounts |-> <<unnamedAccount, polygonAccount>>,
      networks |->
        << Network(POLYGON_MAINNET, "Polygon Mainnet", <<>>, TRUE),
           Network(ETHEREUM_MAINNET, "Ethereum Mainnet",
                   <<BLOCKSCOUT_URL, ETHERSCAN_URL>>, TRUE),
           Network(OP_MAINNET, "OP Mainnet", <<OP_ETHERSCAN_URL>>, TRUE),
           Network(ARBITRUM_ONE, "", <<BSCSCAN_URL>>, TRUE),
           Network(SOLANA_MAINNET, "Solana Mainnet", <<SOLSCAN_URL>>, FALSE) >> ]

Stores == {StoryStore, EmptyStore, CustomStore}

\* A store whose explorers exercise the brand table: a brand in the path
\* only (with a trailing slash, before a later URL), two brands in one host
\* before a later URL, and Solscan under an EVM key.
BrandStore ==
    [ accounts |-> <<ethereumAccount>>,
      networks |->
        << Network(ETHEREUM_MAINNET, "Ethereum Mainnet",
                   <<PATH_BRAND_URL, ETHERSCAN_URL>>, TRUE),
           Network(POLYGON_MAINNET, "Polygon Mainnet",
                   <<TWO_BRAND_URL, POLYGONSCAN_URL>>, TRUE),
           Network(ARBITRUM_ONE, "Arbitrum One", <<SOLSCAN_URL>>, TRUE) >> ]

-----------------------------------------------------------------------------
(* Collaborators of the component *)

\* useI18nContext: the messages of the stories' locale.
T(key, args) ==
    CASE key = "viewOnExplorer" -> "View on Explorer"
      [] key = "viewAddressOnExplorer" -> "View address on " \o args[1]

\* getInternalAccountByAddress(state, address): the account of the store
\* with this address, undefined when there is none.
getInternalAccountByAddress(st, addr) ==
    IF \E i \in 1..Len(st.accounts) : st.accounts[i].address = addr
    THEN st.accounts[CHOOSE i \in 1..Len(st.accounts) :
                        st.accounts[i].address = addr]
    ELSE NoAccount

\* getMultichainNetworkConfigurationsByChainId(state)[0]: the registry, keyed
\* by CAIP chain id.
getMultichainNetworkConfigurationsByChainId(st) == st.networks

\* networkConfigurationsByChainId[caipChainId]
NetworkByChainId(configs, key) ==
    IF \E i \in 1..Len(configs) : configs[i].chainId = key
    THEN configs[CHOOSE i \in 1..Len(configs) : configs[i].chainId = key]
    ELSE NoNetwork

\* accountInfo || account
AccountOr(a, b) == IF IsNone(a) THEN b ELSE a

\* x?.metadata?.name
MetadataName(a) == IF IsNone(a) THEN "" ELSE a.metadata.name

\* A name that prefers the account prop to the registry.
AccountName_PropFirst(accountInfo, acct) ==
    OrElse(MetadataName(acct), OrElse(MetadataName(accountInfo), ""))

\* accountInfo?.metadata?.name || account?.metadata?.name || ''
AccountName(accountInfo, acct) ==
    OrElse(MetadataName(accountInfo), OrElse(MetadataName(acct), ""))

\* A middle segment that starts one character late.
AddressMiddle_StartsLate(addr) ==
    Substring(addr, PREFIX_LEN + 1, Len(addr) - SUFFIX_LEN)

\* const addressStart, addressMiddle, addressEnd
AddressStart(addr) == Substring(addr, 0, PREFIX_LEN)
AddressMiddle(addr) == Substring(addr, PREFIX_LEN, Len(addr) - SUFFIX_LEN)
AddressEnd(addr) == SubstringFrom(addr, Len(addr) - SUFFIX_LEN)

\* useCallback(fn, deps): the previous handler while the dependencies are
\* unchanged, a new one closing over this render's values otherwise.
UseCallback(prev, deps, closure) ==
    IF prev.mounted /\ prev.deps = deps THEN prev
    ELSE [mounted |-> TRUE, deps |-> deps, closure |-> closure]

\* A dependency array that leaves the address out.
CopyDeps_WithoutAddress(addr) == <<>>

\* The dependency array of handleCopyClick (handleCopy is stable).
CopyDeps(addr) == <<addr>>

\* handleCopyClick: handleCopy(address)
handleCopyClick(h) == [type |-> "copy", text |-> h.closure.address]

\* What a render that throws leaves behind.
FailedRender == [threw |-> TRUE]

-----------------------------------------------------------------------------
(* The chain-identifier implementation (src/unnamed/part_001)              *)

\* A conversion that keeps the hex digits as the reference.
ConvertHexChainId_KeepsHexDigits(cid) ==
    LET converted == toEvmCaipChainId(cid)
    IN  IF converted.ok
        THEN Returned([caipChainId |-> EIP155_PREFIX \o HexBody(cid),
                       warning |-> ""])
        ELSE Returned([caipChainId |-> EmptyString,
                       warning |-> "Invalid hex chainId for CAIP conversion:"])

\* try { caipChainId = toEvmCaipChainId(chainId) } catch { warn; '' }
ConvertHexChainId(cid) ==
    LET converted == toEvmCaipChainId(cid)
    IN  IF converted.ok
        THEN Returned([caipChainId |-> converted.value, warning |-> ""])
        ELSE Returned([caipChainId |-> EmptyString,
                       warning |-> "Invalid hex chainId for CAIP conversion:"])

\* The caipChainId of the chainId prop and the console warning, if any.
CaipChainIdOf(cid) ==
    IF StartsWith(cid, EIP155_PREFIX)
    THEN Returned([caipChainId |-> cid, warning |-> ""])
    ELSE IF StartsWith(cid, HEX_PREFIX)
    THEN ConvertHexChainId(cid)
    ELSE Returned([caipChainId |-> EmptyString,
                   warning |-> "Unknown chainId format:"])

\* let multichainNetwork = null; if (chainId && ...) { ... }
MultichainNetworkByChainId(st, cid) ==
    IF cid = EmptyString
    THEN Returned([caipChainId |-> EmptyString, warning |-> "",
                   multichainNetwork |-> NoNetwork])
    ELSE LET caip == CaipChainIdOf(cid)
         IN  IF ~caip.ok THEN Thrown
             ELSE Returned(
                 [caipChainId |-> caip.value.caipChainId,
                  warning |-> caip.value.warning,
                  multichainNetwork |->
                     IF caip.value.caipChainId # EmptyString
                     THEN NetworkByChainId(
                              getMultichainNetworkConfigurationsByChainId(st),
                              caip.value.caipChainId)
                     ELSE NoNetwork])

\* multichainNetwork?.name || 'Unknown Network'
NetworkNameByChainId(network) ==
    OrElse(IF IsNone(network) THEN "" ELSE network.name, "Unknown Network")

\* !multichainNetwork?.blockExplorerUrls?.length
HasNoExplorerUrl(network) ==
    IsNone(network) \/ Len(network.blockExplorerUrls) = 0

\* A brand table that looks for arbiscan before bscscan.
getExplorerButtonText_ArbiscanFirst(network) ==
    IF HasNoExplorerUrl(network) THEN T("viewOnExplorer", <<>>)
    ELSE LET explorerUrl == network.blockExplorerUrls[1]
         IN  IF Includes(explorerUrl, etherscan)
             THEN T("viewAddressOnExplorer", <<"Etherscan">>)
             ELSE IF Includes(explorerUrl, arbiscan)
             THEN T("viewAddressOnExplorer", <<"Arbiscan">>)
             ELSE IF Includes(explorerUrl, bscscan)
             THEN T("viewAddressOnExplorer", <<"BSCScan">>)
             ELSE IF Includes(explorerUrl, polygonscan)
             THEN T("viewAddressOnExplorer", <<"Polygonscan">>)
             ELSE IF Includes(explorerUrl, solscan)
             THEN T("viewAddressOnExplorer", <<"Solscan">>)
             ELSE T("viewOnExplorer", <<>>)

getExplorerButtonTextByChainId(network) ==
    IF HasNoExplorerUrl(network) THEN T("viewOnExplorer", <<>>)
    ELSE LET explorerUrl == network.blockExplorerUrls[1]
         IN  IF Includes(explorerUrl, etherscan)
             THEN T("viewAddressOnExplorer", <<"Etherscan">>)
             ELSE IF Includes(explorerUrl, bscscan)
             THEN T("viewAddressOnExplorer", <<"BSCScan">>)
             ELSE IF Includes(explorerUrl, polygonscan)
             THEN T("viewAddressOnExplorer", <<"Polygonscan">>)
             ELSE IF Includes(explorerUrl, arbiscan)
             THEN T("viewAddressOnExplorer", <<"Arbiscan">>)
             ELSE IF Includes(explorerUrl, solscan)
             THEN T("viewAddressOnExplorer", <<"Solscan">>)
             ELSE T("viewOnExplorer", <<>>)

\* The dependency array of handleExplorerNavigation (trackEvent is stable).
ExplorerDepsByChainId(addr, network) == <<addr, network>>

\* A navigation that takes the last explorer URL of the list.
handleExplorerNavigation_LastUrl(h) ==
    IF HasNoExplorerUrl(h.closure.multichainNetwork) THEN [type |-> "none"]
    ELSE LET urls == h.closure.multichainNetwork.blockExplorerUrls
             explorerUrl == urls[Len(urls)]
         IN  [type |-> "open",
              url |-> ReplaceTrailingSlash(explorerUrl) \o ADDRESS_PATH
                          \o h.closure.address]

\* handleExplorerNavigation: openBlockExplorer(addressLink, ...) or nothing
handleExplorerNavigationByChainId(h) ==
    IF HasNoExplorerUrl(h.closure.multichainNetwork) THEN [type |-> "none"]
    ELSE LET explorerUrl == h.closure.multichainNetwork.blockExplorerUrls[1]
         IN  [type |-> "open",
              url |-> ReplaceTrailingSlash(explorerUrl) \o ADDRESS_PATH
                          \o h.closure.address]

\* One render of the component: the values it displays.
RenderByChainId(addr, cid, acct, st) ==
    LET accountInfo == getInternalAccountByAddress(st, addr)
        resolved    == MultichainNetworkByChainId(st, cid)
    IN  IF ~resolved.ok THEN FailedRender
        ELSE [ threw |-> FALSE,
               caipChainId |-> resolved.value.caipChainId,
               warning |-> resolved.value.warning,
               multichainNetwork |-> resolved.value.multichainNetwork,
               accountName |-> AccountName(accountInfo, acct),
               networkName |->
                   NetworkNameByChainId(resolved.value.multichainNetwork),
               addressStart |-> AddressStart(addr),
               addressMiddle |-> AddressMiddle(addr),
               addressEnd |-> AddressEnd(addr),
               explorerButtonText |->
                   getExplorerButtonTextByChainId(
                       resolved.value.multichainNetwork) ]

\* The handlers of a render, given those of the previous one.
HandlersByChainId(prev, addr, v) ==
    [ copy |-> UseCallback(prev.copy, CopyDeps(addr), [address |-> addr]),
      explorer |->
          UseCallback(prev.explorer,
                      ExplorerDepsByChainId(addr, v.multichainNetwork),
                      [address |-> addr,
                       multichainNetwork |-> v.multichainNetwork]) ]

-----------------------------------------------------------------------------
(* The account-scope implementation                                        *)
(* (src/ui/components/multichain-accounts/address-qr-code-modal/           *)
(*  address-qr-code-modal.tsx)                                             *)

\* A scope of an account covers a chain id: the same id, or the wildcard of
\* its namespace.
ScopeCovers(scope, id) ==
    \/ scope = id
    \/ /\ Len(scope) > 0
       /\ scope[Len(scope)] = "*"
       /\ StartsWith(id, SubSeq(scope, 1, Len(scope) - 1))

\* getMultichainNetwork(state, account): the network implied by the
\* account's first matching scope; none without an account or a match.
getMultichainNetwork(st, acct) ==
    IF IsNone(acct) THEN NoNetwork
    ELSE LET Matching(i) ==
                 {j \in 1..Len(st.networks) :
                     ScopeCovers(acct.scopes[i], st.networks[j].chainId)}
             Scopes == {i \in 1..Len(acct.scopes) : Matching(i) # {}}
         IN  IF Scopes = {} THEN NoNetwork
             ELSE LET i == CHOOSE k \in Scopes : \A m \in Scopes : k <= m
                      j == CHOOSE k \in Matching(i) :
                               \A m \in Matching(i) : k <= m
                      n == st.networks[j]
                  IN  [chainId |-> n.chainId, nickname |-> n.name,
                       isEvmNetwork |-> n.isEvm,
                       blockExplorerUrls |-> n.blockExplorerUrls]

\* getAccountTypeCategory(account): the family of the account's type.
getAccountTypeCategory(acct) ==
    CASE acct.type = "eip155:eoa" -> "evm"
      [] acct.type = "solana:data-account" -> "solana"
      [] OTHER -> "other"

\* getMultichainAccountUrl(address, network): the address page of the
\* network's first explorer, '' when there is none.
getMultichainAccountUrl(addr, network) ==
    IF HasNoExplorerUrl(network) THEN EmptyString
    ELSE ReplaceTrailingSlash(network.blockExplorerUrls[1]) \o ADDRESS_PATH
             \o addr

\* multichainNetwork?.nickname || ''
NetworkNameByScope(network) ==
    OrElse(IF IsNone(network) THEN "" ELSE network.nickname, "")

getExplorerButtonTextByScope(accountInfo, acct) ==
    LET targetAccount == AccountOr(accountInfo, acct)
    IN  IF IsNone(targetAccount) THEN T("viewOnExplorer", <<>>)
        ELSE CASE getAccountTypeCategory(targetAccount) = "evm" ->
                      T("viewAddressOnExplorer", <<"Etherscan">>)
               [] getAccountTypeCategory(targetAccount) = "solana" ->
                      T("viewAddressOnExplorer", <<"Solscan">>)
               [] OTHER -> T("viewOnExplorer", <<>>)

\* The dependency array of handleExplorerNavigation (trackEvent is stable).
ExplorerDepsByScope(addr, accountInfo, acct, network) ==
    <<addr, accountInfo, acct, network>>

\* handleExplorerNavigation: openBlockExplorer(addressLink, ...) or nothing
handleExplorerNavigationByScope(h) ==
    IF IsNone(h.closure.account) /\ IsNone(h.closure.accountInfo)
    THEN [type |-> "none"]
    ELSE LET addressLink ==
                 getMultichainAccountUrl(h.closure.address,
                                         h.closure.multichainNetwork)
         IN  IF addressLink # EmptyString
             THEN [type |-> "open", url |-> addressLink]
             ELSE [type |-> "none"]

\* One render of the component: the values it displays.
RenderByScope(addr, cid, acct, st) ==
    LET accountInfo       == getInternalAccountByAddress(st, addr)
        multichainNetwork ==
            getMultichainNetwork(st, AccountOr(accountInfo, acct))
    IN  [ threw |-> FALSE,
          accountInfo |-> accountInfo,
          multichainNetwork |-> multichainNetwork,
          accountName |-> AccountName(accountInfo, acct),
          networkName |-> NetworkNameByScope(multichainNetwork),
          addressStart |-> AddressStart(addr),
          addressMiddle |-> AddressMiddle(addr),
          addressEnd |-> AddressEnd(addr),
          explorerButtonText |->
              getExplorerButtonTextByScope(accountInfo, acct) ]

\* The handlers of a render, given those of the previous one.
HandlersByScope(prev, addr, acct, v) ==
    [ copy |-> UseCallback(prev.copy, CopyDeps(addr), [address |-> addr]),
      explorer |->
          UseCallback(prev.explorer,
                      ExplorerDepsByScope(addr, v.accountInfo, acct,
                                          v.multichainNetwork),
                      [address |-> addr, accountInfo |-> v.accountInfo,
                       account |-> acct,
                       multichainNetwork |-> v.multichainNetwork]) ]

-----------------------------------------------------------------------------
(* The state machine: the first render, re-renders on a changed prop or a  *)
(* store update, and clicks on the two buttons.                            *)

\* No handler yet: the first render creates them.
Unmounted == [copy |-> [mounted |-> FALSE], explorer |-> [mounted |-> FALSE]]

\* What both implementations display for these props and this store.
ViewOf(addr, cid, acct, st) ==
    [ byChainId |-> RenderByChainId(addr, cid, acct, st),
      byScope |-> RenderByScope(addr, cid, acct, st) ]

\* The handlers after a render that displays v (a render that throws
\* commits nothing).
HandlersOf(prev, addr, acct, v) ==
    [ byChainId |-> IF v.byChainId.threw THEN prev.byChainId
                    ELSE HandlersByChainId(prev.byChainId, addr, v.byChainId),
      byScope |-> HandlersByScope(prev.byScope, addr, acct, v.byScope) ]

\* The side effects of a render: the console warning, or the exception.
EffectOfRender(v) ==
    [ byChainId |-> IF v.byChainId.threw THEN [type |-> "throw"]
                    ELSE [type |-> "render", warning |-> v.byChainId.warning],
      byScope |-> [type |-> "render", warning |-> ""] ]

\* A render that also writes to the store: it moves the network it resolved
\* to the head of the registry.
Render_WritesStore(prev, addr, cid, acct, st) ==
    LET v == ViewOf(addr, cid, acct, st)
        n == v.byChainId.multichainNetwork
    IN  /\ address' = addr
        /\ chainId' = cid
        /\ account' = acct
        /\ store' = IF IsNone(n) THEN st
                    ELSE [st EXCEPT !.networks =
                             <<n>> \o SelectSeq(st.networks,
                                                LAMBDA x : x.chainId # n.chainId)]
        /\ view' = v
        /\ handlers' = HandlersOf(prev, addr, acct, v)
        /\ effect' = EffectOfRender(v)

\* A render pass of both implementations with these props and this store:
\* the store is only read.
Render(prev, addr, cid, acct, st) ==
    LET v == ViewOf(addr, cid, acct, st)
    IN  /\ address' = addr
        /\ chainId' = cid
        /\ account' = acct
        /\ store' = st
        /\ view' = v
        /\ handlers' = HandlersOf(prev, addr, acct, v)
        /\ effect' = EffectOfRender(v)

\* The first render, with props and store drawn from these sets.
InitOver(As, Cs, Ps, Ss) ==
    \E addr \in As, cid \in Cs, acct \in Ps, st \in Ss :
        LET v == ViewOf(addr, cid, acct, st)
        IN  /\ address = addr
            /\ chainId = cid
            /\ account = acct
            /\ store = st
            /\ view = v
            /\ handlers =
                  HandlersOf([byChainId |-> Unmounted, byScope |-> Unmounted],
                             addr, acct, v)
            /\ effect = EffectOfRender(v)

\* The parent passes another address (or the same one again).
SetAddress(As) ==
    \E addr \in As : Render(handlers, addr, chainId, account, store)

\* The parent passes another chain identifier.
SetChainId(Cs) ==
    \E cid \in Cs : Render(handlers, address, cid, account, store)

\* The parent passes another account, or none.
SetAccount(Ps) ==
    \E acct \in Ps : Render(handlers, address, chainId, acct, store)

\* The store changes and the selectors re-render the component.
StoreUpdate(Ss) ==
    \E st \in Ss : Render(handlers, address, chainId, account, st)

\* A click on the copy button.
CopyClick ==
    /\ effect' = [byChainId |-> handleCopyClick(handlers.byChainId.copy),
                  byScope |-> handleCopyClick(handlers.byScope.copy)]
    /\ UNCHANGED <<address, chainId, account, store, view, handlers>>

\* A click on the explorer button.
ExplorerClick ==
    /\ effect' =
          [byChainId |->
               handleExplorerNavigationByChainId(handlers.byChainId.explorer),
           byScope |->
               handleExplorerNavigationByScope(handlers.byScope.explorer)]
    /\ UNCHANGED <<address, chainId, account, store, view, handlers>>

\* The component in use: the stories' props and more, against every store.
Addresses == FullAddresses \cup {EmptyString, SubSeq(POLYGON_ADDRESS, 1, 11)}
ChainIds == StoryChainIds \cup {EmptyString, DECIMAL_1, HEX_MALFORMED}

\* The first render is that of the EthereumMainnet story; every other state
\* is reached by re-renders and clicks.
Init == InitOver({ETHEREUM_ADDRESS}, {HEX_1}, {ethereumAccount}, {StoryStore})

Next ==
    \/ SetAddress(Addresses)
    \/ SetChainId(ChainIds)
    \/ SetAccount(AccountProps)
    \/ StoreUpdate(Stores)
    \/ CopyClick
    \/ ExplorerClick

Spec == Init /\ [][Next]_vars

\* The chain-identifier handling on every shape of identifier.
InitChainId ==
    InitOver({POLYGON_ADDRESS, WITHOUT_ACCOUNT_ADDRESS}, AllChainIds,
             {NoAccount, solanaAccount}, Stores)

NextChainId ==
    \/ SetAddress({POLYGON_ADDRESS, WITHOUT_ACCOUNT_ADDRESS})
    \/ SetChainId(AllChainIds)
    \/ SetAccount({NoAccount, solanaAccount})
    \/ StoreUpdate(Stores)
    \/ CopyClick
    \/ ExplorerClick

SpecChainId == InitChainId /\ [][NextChainId]_vars

\* The address segmentation on addresses of every length.
InitAddress ==
    InitOver(ShortAddresses \cup FullAddresses, {HEX_1, SOLANA_MAINNET},
             {NoAccount, polygonAccount}, {StoryStore})

NextAddress ==
    \/ SetAddress(ShortAddresses \cup FullAddresses)
    \/ SetChainId({HEX_1, SOLANA_MAINNET})
    \/ SetAccount({NoAccount, polygonAccount})
    \/ StoreUpdate({StoryStore})
    \/ CopyClick
    \/ ExplorerClick

SpecAddress == InitAddress /\ [][NextAddress]_vars

\* The explorer button on every kind of explorer list.
ExplorerAddresses == {ETHEREUM_ADDRESS, ODD_ADDRESS}
ExplorerChainIds == {HEX_1, HEX_89, HEX_A4B1, OP_MAINNET, SOLANA_MAINNET}
ExplorerAccounts == {NoAccount, ethereumAccount, solanaAccount, bitcoinAccount}
ExplorerStores == {StoryStore, EmptyStore, CustomStore, BrandStore}

InitExplorer ==
    InitOver(ExplorerAddresses, ExplorerChainIds, ExplorerAccounts,
             ExplorerStores)

NextExplorer ==
    \/ SetAddress(ExplorerAddresses)
    \/ SetChainId(ExplorerChainIds)
    \/ SetAccount(ExplorerAccounts)
    \/ StoreUpdate(ExplorerStores)
    \/ CopyClick
    \/ ExplorerClick

SpecExplorer == InitExplorer /\ [][NextExplorer]_vars

-----------------------------------------------------------------------------
(* Vocabulary of the properties *)

LowerChars ==
    {"a","b","c","d","e","f","g","h","i","j","k","l","m",
     "n","o","p","q","r","s","t","u","v","w","x","y","z"}
UpperChars ==
    {"A","B","C","D","E","F","G","H","I","J","K","L","M",
     "N","O","P","Q","R","S","T","U","V","W","X","Y","Z"}
DigitChars == {"0","1","2","3","4","5","6","7","8","9"}

\* A canonical (CAIP-2) chain identifier: a namespace of 3 to 8 characters
\* of [-a-z0-9], a colon, and a reference of 1 to 32 characters of
\* [-_a-zA-Z0-9].
IsCanonical(s) ==
    \E k \in 1..Len(s) :
        /\ s[k] = ":"
        /\ k - 1 \in 3..8
        /\ \A i \in 1..(k - 1) : s[i] \in LowerChars \cup DigitChars \cup {"-"}
        /\ Len(s) - k \in 1..32
        /\ \A i \in (k + 1)..Len(s) :
              s[i] \in LowerChars \cup UpperChars \cup DigitChars \cup {"-", "_"}

\* A valid legacy-hex chain identifier: 0x, then hex digits whose value is a
\* safe integer (at most 2^53 - 1, that is 0x1fffffffffffff).
IsValidLegacyHex(s) ==
    /\ Len(s) >= 3
    /\ s[1] = "0" /\ s[2] = "x"
    /\ \A i \in 3..Len(s) : s[i] \in DigitChars \cup
           {"a","b","c","d","e","f","A","B","C","D","E","F"}
    /\ LET significant == {i \in 3..Len(s) : \E j \in 3..i : s[j] # "0"}
       IN  \/ Cardinality(significant) <= 13
           \/ /\ Cardinality(significant) = 14
              /\ s[Len(s) - 13] = "1"

RECURSIVE HexValueOf(_)
HexValueOf(digits) ==
    IF Len(digits) = 0 THEN 0
    ELSE 16 * HexValueOf(SubSeq(digits, 1, Len(digits) - 1))
             + HexDigitValue(digits[Len(digits)])

RECURSIVE DecimalOf(_)
DecimalOf(n) ==
    IF n < 10 THEN <<DecimalChar(n)>>
    ELSE DecimalOf(n \div 10) \o <<DecimalChar(n % 10)>>

\* 'eip155:' and the decimal numeral of the value of the hex digits (the
\* largest safe integer, beyond TLC's integers, is written out).
CanonicalOfHex(cid) ==
    IF cid = HEX_MAX_SAFE THEN MAX_SAFE_CHAIN
    ELSE EIP155_PREFIX \o DecimalOf(HexValueOf(SubSeq(cid, 3, Len(cid))))

\* The canonical form of a chain identifier that has one.
CanonicalOf(cid) == IF IsValidLegacyHex(cid) THEN CanonicalOfHex(cid) ELSE cid

\* The registry holds a record under this key.
InRegistry(key) ==
    \E i \in 1..Len(store.networks) : store.networks[i].chainId = key

RegistryRecord(key) ==
    store.networks[CHOOSE i \in 1..Len(store.networks) :
                      store.networks[i].chainId = key]

\* The chain id of a resolved network, the empty string when none is resolved.
ResolvedChainId(network) ==
    IF IsNone(network) THEN EmptyString ELSE network.chainId

\* What a click on the explorer button does in the current state.
ExplorerTargetByChainId ==
    handleExplorerNavigationByChainId(handlers.byChainId.explorer)
ExplorerTargetByScope ==
    handleExplorerNavigationByScope(handlers.byScope.explorer)

-----------------------------------------------------------------------------
(* C1 *)

\* C1: a chain identifier already in canonical form (EVM or non-EVM) is
\* normalised to itself without a diagnostic, and when the registry holds a
\* record under that key the resolved network is that record.
C1_CanonicalIsUnchanged ==
    IsCanonical(chainId) =>
        /\ ~view.byChainId.threw
        /\ view.byChainId.caipChainId = chainId
        /\ view.byChainId.warning = ""
        /\ InRegistry(chainId) =>
              view.byChainId.multichainNetwork = RegistryRecord(chainId)

-----------------------------------------------------------------------------
(* C2 *)

\* The address belongs to an account of the store that is scoped to the
\* chain the chain identifier names, as in the PolygonMainnet story.
KnownAccountOnChain ==
    LET accountInfo == getInternalAccountByAddress(store, address)
    IN  /\ ~IsNone(accountInfo)
        /\ \E i \in 1..Len(accountInfo.scopes) :
              accountInfo.scopes[i] = CanonicalOf(chainId)

\* C2: for an address of a known account, the chain-identifier path and the
\* account-scope path resolve the same network and show the same network
\* name, explorer label and explorer target.  Stated for the inputs on which
\* the chain identifier is the chain the account is scoped to.
C2_PathsAgree ==
    KnownAccountOnChain =>
        /\ ~view.byChainId.threw
        /\ ResolvedChainId(view.byChainId.multichainNetwork)
              = ResolvedChainId(view.byScope.multichainNetwork)
        /\ view.byChainId.networkName = view.byScope.networkName
        /\ view.byChainId.explorerButtonText = view.byScope.explorerButtonText
        /\ ExplorerTargetByChainId = ExplorerTargetByScope

-----------------------------------------------------------------------------
(* C3 *)

\* C3: in both implementations, whenever no network is resolved or the
\* resolved network has no explorer URL, the explorer button carries the
\* generic label and a click on it opens nothing.
C3_GenericWithoutExplorer ==
    /\ ~view.byChainId.threw
    /\ HasNoExplorerUrl(view.byChainId.multichainNetwork) =>
          /\ view.byChainId.explorerButtonText = "View on Explorer"
          /\ ExplorerTargetByChainId.type = "none"
    /\ HasNoExplorerUrl(view.byScope.multichainNetwork) =>
          /\ view.byScope.explorerButtonText = "View on Explorer"
          /\ ExplorerTargetByScope.type = "none"

\* The chain-identifier implementation on its own meets C3.
C3_ByChainId ==
    /\ ~view.byChainId.threw
    /\ HasNoExplorerUrl(view.byChainId.multichainNetwork) =>
          /\ view.byChainId.explorerButtonText = "View on Explorer"
          /\ ExplorerTargetByChainId.type = "none"

-----------------------------------------------------------------------------
(* C4 *)

\* The chain identifier normalises to Unknown, or the registry has no record
\* for its normal form.
Unresolvable ==
    \/ view.byChainId.caipChainId = EmptyString
    \/ ~InRegistry(view.byChainId.caipChainId)

\* C4: whenever the chain identifier normalises to Unknown or the registry
\* has no record for it, no network is resolved and the network name shown
\* is 'Unknown Network'; the account-scope implementation, which resolves
\* from the account, shows the same placeholder whenever it resolves no
\* network; no render fails.
C4_UnknownNetworkPlaceholder ==
    /\ ~view.byChainId.threw
    /\ ~view.byScope.threw
    /\ Unresolvable =>
          /\ IsNone(view.byChainId.multichainNetwork)
          /\ view.byChainId.networkName = "Unknown Network"
    /\ IsNone(view.byScope.multichainNetwork) =>
          view.byScope.networkName = "Unknown Network"

\* The chain-identifier implementation on its own meets C4.
C4_ByChainId ==
    /\ ~view.byChainId.threw
    /\ Unresolvable =>
          /\ IsNone(view.byChainId.multichainNetwork)
          /\ view.byChainId.networkName = "Unknown Network"

-----------------------------------------------------------------------------
(* C5 *)

\* C5: a chain identifier that is neither canonical nor valid legacy-hex
\* normalises to Unknown, no network is resolved, and the render does not
\* fail.
C5_UnrecognisedIsUnknown ==
    (~IsCanonical(chainId) /\ ~IsValidLegacyHex(chainId)) =>
        /\ ~view.byChainId.threw
        /\ view.byChainId.caipChainId = EmptyString
        /\ IsNone(view.byChainId.multichainNetwork)

-----------------------------------------------------------------------------
(* C6 *)

\* The values a render displays.
Displayed(v) ==
    [ multichainNetwork |-> v.multichainNetwork,
      accountName |-> v.accountName,
      networkName |-> v.networkName,
      explorerButtonText |-> v.explorerButtonText ]

\* C6: a valid legacy-hex chain identifier 0x<h> normalises to
\* eip155:<decimal value of h>, and the render shows the same network, network
\* name and explorer label as a render with that canonical identifier.
C6_HexEqualsCanonical ==
    IsValidLegacyHex(chainId) =>
        /\ ~view.byChainId.threw
        /\ view.byChainId.caipChainId = CanonicalOfHex(chainId)
        /\ Displayed(view.byChainId)
              = Displayed(RenderByChainId(address, CanonicalOfHex(chainId),
                                          account, store))

\* The EthereumMainnet story: 0x1 shows 'Ethereum Mainnet' and the Etherscan
\* label.
C6_Witness ==
    /\ chainId = HEX_1
    /\ view.byChainId.caipChainId = ETHEREUM_MAINNET
    /\ view.byChainId.networkName = "Ethereum Mainnet"
    /\ view.byChainId.explorerButtonText = "View address on Etherscan"

-----------------------------------------------------------------------------
(* C7 *)

Segments(v) == v.addressStart \o v.addressMiddle \o v.addressEnd

\* C7: for an address of at least 11 characters the three segments
\* concatenate to the address, the first is 6 and the last 5 characters
\* long; for exactly 11 characters the middle segment is empty.
C7_SegmentsPartition ==
    Len(address) >= PREFIX_LEN + SUFFIX_LEN =>
        \A v \in {view.byChainId, view.byScope} :
            /\ ~v.threw
            /\ Segments(v) = address
            /\ Len(v.addressStart) = 6
            /\ Len(v.addressEnd) = 5
            /\ Len(address) = 11 => v.addressMiddle = EmptyString

\* An address of exactly 11 characters, split 6 + 0 + 5.
C7_Witness ==
    /\ Len(address) = 11
    /\ view.byChainId.addressMiddle = EmptyString
    /\ view.byScope.addressStart \o view.byScope.addressEnd = address

-----------------------------------------------------------------------------
(* C8 *)

\* address[lo:hi] of the specification: empty when hi <= lo.
Slice(s, lo, hi) ==
    LET a == IF lo < 0 THEN 0 ELSE IF lo > Len(s) THEN Len(s) ELSE lo
        b == IF hi < 0 THEN 0 ELSE IF hi > Len(s) THEN Len(s) ELSE hi
    IN  IF b <= a THEN EmptyString ELSE SubSeq(s, a + 1, b)

\* C8: for an address shorter than 11 characters the first segment is
\* address[0:6], the last is the last 5 characters (the whole address when
\* shorter), and the middle segment address[6:len-5] is empty.
C8_ShortAddressSegments ==
    Len(address) < PREFIX_LEN + SUFFIX_LEN =>
        \A v \in {view.byChainId, view.byScope} :
            /\ ~v.threw
            /\ v.addressStart = Slice(address, 0, 6)
            /\ v.addressEnd = Slice(address, Len(address) - 5, Len(address))
            /\ v.addressMiddle = Slice(address, 6, Len(address) - 5)
            /\ v.addressMiddle = EmptyString

-----------------------------------------------------------------------------
(* C9 *)

\* The explorer handlers as this render would create them afresh.
FreshExplorerByChainId ==
    [closure |-> [address |-> address,
                  multichainNetwork |-> view.byChainId.multichainNetwork]]
FreshExplorerByScope ==
    [closure |-> [address |-> address,
                  accountInfo |-> view.byScope.accountInfo,
                  account |-> account,
                  multichainNetwork |-> view.byScope.multichainNetwork]]

\* C9: after any re-renders, a click on the copy button copies the whole
\* address of the latest render, and a click on the explorer button acts on
\* the address and the network of the latest render.
C9_HandlersAreCurrent ==
    /\ effect.byChainId.type = "copy" =>
          /\ effect.byChainId.text = address
          /\ effect.byScope.text = address
    /\ effect.byChainId.type \in {"open", "none"} =>
          /\ effect.byChainId
                = handleExplorerNavigationByChainId(FreshExplorerByChainId)
          /\ effect.byScope
                = handleExplorerNavigationByScope(FreshExplorerByScope)

\* Clicks after re-renders away from the first render's address and network:
\* the Polygon address is copied, or its Polygonscan page opened.
C9_Witness ==
    /\ address = POLYGON_ADDRESS
    /\ chainId = HEX_89
    /\ store = StoryStore
    /\ effect.byChainId.type = "open"
    /\ effect.byChainId.url = POLYGONSCAN_URL \o ADDRESS_PATH \o POLYGON_ADDRESS
    /\ effect.byScope.type = "open"

-----------------------------------------------------------------------------
(* C10 *)

-----------------------------------------------------------------------------
(* C11 *)

\* The brand table, in the order it is consulted.
BrandTable ==
    << [substring |-> <<"e","t","h","e","r","s","c","a","n">>,
        brand |-> "Etherscan"],
       [substring |-> <<"b","s","c","s","c","a","n">>, brand |-> "BSCScan"],
       [substring |-> <<"p","o","l","y","g","o","n","s","c","a","n">>,
        brand |-> "Polygonscan"],
       [substring |-> <<"a","r","b","i","s","c","a","n">>,
        brand |-> "Arbiscan"],
       [substring |-> <<"s","o","l","s","c","a","n">>, brand |-> "Solscan"] >>

\* The text occurs somewhere in the other.
Occurs(sub, text) ==
    \E i \in 1..(Len(text) - Len(sub) + 1) :
        SubSeq(text, i, i + Len(sub) - 1) = sub

\* The host of a URL: what lies between '://' and the next '/' (the whole
\* text when it has no scheme).
HostOf(url) ==
    LET schemes == {i \in 1..(Len(url) - 2) :
                       SubSeq(url, i, i + 2) = <<":", "/", "/">>}
    IN  IF schemes = {} THEN url
        ELSE LET b == 3 + CHOOSE i \in schemes : \A j \in schemes : i <= j
                 slashes == {j \in b..Len(url) : url[j] = "/"}
                 e == IF slashes = {} THEN Len(url)
                      ELSE (CHOOSE j \in slashes :
                                \A k \in slashes : j <= k) - 1
             IN  SubSeq(url, b, e)

\* The label for a text: that of the first entry of the brand table whose
\* substring occurs in it, the generic one when none does.
BrandedLabel(text) ==
    LET hits == {k \in 1..Len(BrandTable) :
                    Occurs(BrandTable[k].substring, text)}
    IN  IF hits = {} THEN "View on Explorer"
        ELSE "View address on "
                 \o BrandTable[CHOOSE k \in hits : \A m \in hits : k <= m].brand

\* The chain-identifier implementation resolved a network with at least one
\* explorer URL.
HasExplorerByChainId ==
    /\ ~view.byChainId.threw
    /\ ~HasNoExplorerUrl(view.byChainId.multichainNetwork)

FirstExplorerUrlByChainId ==
    view.byChainId.multichainNetwork.blockExplorerUrls[1]

\* C11 as stated: when the resolved network has an explorer URL, the label
\* is that of the first entry of the brand table whose substring occurs in
\* the host of the first explorer URL, and the generic label when the host
\* contains none of them.
C11_BrandFromHost ==
    HasExplorerByChainId =>
        view.byChainId.explorerButtonText
            = BrandedLabel(HostOf(FirstExplorerUrlByChainId))

\* C11, amended: when the resolved network has an explorer URL, the label is
\* that of the first entry of the brand table whose substring occurs
\* anywhere in the first explorer URL (scheme, host or path), and the
\* generic label when the URL contains none of them; later URLs of the list
\* play no part.
C11_BrandFromFirstUrl ==
    HasExplorerByChainId =>
        view.byChainId.explorerButtonText
            = BrandedLabel(FirstExplorerUrlByChainId)

\* A first URL that names two brands, arbiscan before bscscan, followed by a
\* Polygonscan URL: the label is the table's earlier brand, BSCScan.
C11_Witness ==
    /\ chainId = HEX_89
    /\ store = BrandStore
    /\ HasExplorerByChainId
    /\ FirstExplorerUrlByChainId = TWO_BRAND_URL
    /\ Len(view.byChainId.multichainNetwork.blockExplorerUrls) = 2
    /\ view.byChainId.explorerButtonText = "View address on BSCScan"

-----------------------------------------------------------------------------
(* C12 *)

\* The address page of an explorer: its base URL without one trailing '/',
\* then '/address/', then the address as it is.
AddressPage(baseUrl, addr) ==
    (IF Len(baseUrl) > 0 /\ baseUrl[Len(baseUrl)] = "/"
     THEN SubSeq(baseUrl, 1, Len(baseUrl) - 1)
     ELSE baseUrl)
        \o <<"/", "a", "d", "d", "r", "e", "s", "s", "/">> \o addr

\* The one URL a click opens for this network and the current address.
OpensAddressPage(network) ==
    [type |-> "open",
     url |-> AddressPage(network.blockExplorerUrls[1], address)]

\* C12: in both implementations, when the resolved network has at least one
\* explorer URL, a click on the explorer button opens exactly one URL: the
\* first explorer base URL with one trailing '/' removed if it has one, then
\* '/address/', then the address unencoded; later URLs are never used.
C12_OpensFirstExplorer ==
    /\ HasExplorerByChainId =>
          /\ ExplorerTargetByChainId
                = OpensAddressPage(view.byChainId.multichainNetwork)
          /\ effect.byChainId.type \in {"open", "none"} =>
                effect.byChainId
                    = OpensAddressPage(view.byChainId.multichainNetwork)
    /\ ~HasNoExplorerUrl(view.byScope.multichainNetwork) =>
          /\ ExplorerTargetByScope
                = OpensAddressPage(view.byScope.multichainNetwork)
          /\ effect.byScope.type \in {"open", "none"} =>
                effect.byScope = OpensAddressPage(view.byScope.multichainNetwork)

\* Clicks in both implementations have opened the page of an address with
\* reserved characters on an explorer that is the first of two and whose
\* base URL ends with a slash.
C12_Witness ==
    /\ address = ODD_ADDRESS
    /\ chainId = HEX_1
    /\ store = BrandStore
    /\ account = ethereumAccount
    /\ Len(view.byChainId.multichainNetwork.blockExplorerUrls) = 2
    /\ Len(view.byScope.multichainNetwork.blockExplorerUrls) = 2
    /\ effect.byChainId.type = "open"
    /\ effect.byChainId.url
          = SubSeq(PATH_BRAND_URL, 1, Len(PATH_BRAND_URL) - 1)
                \o ADDRESS_PATH \o ODD_ADDRESS
    /\ effect.byScope = effect.byChainId

-----------------------------------------------------------------------------
(* C13 *)

\* The label names a brand of the table.
IsBranded(label) ==
    \E k \in 1..Len(BrandTable) :
        label = "View address on " \o BrandTable[k].brand

\* C13: in every render of both implementations, an explorer button that
\* shows a branded label opens an explorer URL when clicked; a branded label
\* is never shown on a button whose click does nothing.
C13_LabelAgreesWithNavigation ==
    /\ ~view.byChainId.threw
    /\ IsBranded(view.byChainId.explorerButtonText) =>
          ExplorerTargetByChainId.type = "open"
    /\ IsBranded(view.byScope.explorerButtonText) =>
          ExplorerTargetByScope.type = "open"

\* The chain-identifier implementation on its own meets C13.
C13_ByChainId ==
    /\ ~view.byChainId.threw
    /\ IsBranded(view.byChainId.explorerButtonText) =>
          ExplorerTargetByChainId.type = "open"

-----------------------------------------------------------------------------
(* C14 *)

\* The registry accounts with the current address.
RegistryAccounts ==
    {i \in 1..Len(store.accounts) : store.accounts[i].address = address}

\* The name of the registry account with the current address, the empty
\* string when the registry has none.
RegistryName ==
    IF RegistryAccounts = {} THEN ""
    ELSE store.accounts[CHOOSE i \in RegistryAccounts : TRUE].metadata.name

\* The name of the account passed as a prop, the empty string without one.
PropName == IF account = NoAccount THEN "" ELSE account.metadata.name

\* The name by precedence: registry, then prop, then nothing.
NameByPrecedence ==
    IF RegistryName # "" THEN RegistryName
    ELSE IF PropName # "" THEN PropName
    ELSE ""

=============================================================================
